---- MODULE Spec2Model ----
(***************************************************************************)
(* Conway's Game of Life (lab2/src/main.rs): the GameOfLife grid, its rule *)
(* engine, the pattern library, the seeding operations, the views          *)
(* (get_color, render, to_gif_frame_data) and main with its GifGenerator   *)
(* and its window.                                                         *)
(*                                                                         *)
(* A grid is a function  grid[y][x]  with y in 0..height-1 and x in        *)
(* 0..width-1, as the Vec<Vec<CellState>> of the source is indexed.        *)
(* A GameOfLife value ("self") is the record [grid, width, height].        *)
(* The constants of the source (WIDTH, HEIGHT, SCALE, MAX_FRAMES, FPS) are *)
(* read from config: MainConfig is the build of the source, and main is    *)
(* run to its end in a build with small constants.                         *)
(*                                                                         *)
(* Specifications, all over the same variables:                            *)
(*   SpecStep        every grid of a small shape, stepped and queried      *)
(*   SpecPattern     one pattern stamped on the all-Dead grid, then stepped*)
(*   SpecOscillator  the same for the oscillators, on a 15 x 15 grid       *)
(*   SpecStamp       one pattern stamped on a randomly seeded small grid   *)
(*   SpecSeed        a small grid seeded again and again                   *)
(*   SpecView        a small grid seeded, stepped, rendered and exported   *)
(*   SpecMain        main, statement by statement, in a small build        *)
(*   SpecMainFair    SpecMain, and main does not stop at a statement       *)
(*   SpecStartup     initialize on the 100 x 100 grid of the source        *)
(***************************************************************************)
EXTENDS Integers, Sequences, FiniteSets, TLC

\* ===== bounds of the model =====

\* SpecStep: grids of every shape with width*height <= MaxCells.
MaxCells == 9
\* SpecPattern: the grid has PatWidth x PatHeight cells and is stepped at most
\* MaxGen times after a placement.
PatWidth == 9
PatHeight == 8
MaxGen == 6
\* SpecOscillator: the grid has OscWidth x OscHeight cells, the 13 x 13
\* cells of the Pulsar and one cell of margin to each edge.
OscWidth == 15
OscHeight == 15
\* SpecStamp: randomly seeded grids of every shape with
\* width*height <= MaxStampCells.
MaxStampCells == 6
\* SpecSeed: grids of every shape with width*height <= MaxSeedCells.
MaxSeedCells == 4
\* SpecView: grids of every shape with width*height <= MaxViewCells, in a
\* build whose window is for a grid of ViewWidth x ViewHeight cells.
MaxViewCells == 4
ViewWidth == 2
ViewHeight == 2
\* SpecStartup: the random source is sampled on the grid of the source's
\* build: the draws that fall below every probability lie on the diagonal
\* stripes of every period up to MaxStride.
MaxStride == 8
\* SpecMain: the constants of a build of the program that is small enough to
\* run main to its end from every seeded grid.
SmallWidth == 3
SmallHeight == 1
SmallScale == 2
SmallFrames == 3

\* ===== TIPOS =====
Dead == "Dead"
Alive == "Alive"
CellState == {Dead, Alive}

VARIABLES
    width,      \* self.width
    height,     \* self.height
    grid,       \* self.grid
    old,        \* the grid as it was before the last operation
    op,         \* the last operation applied to the GameOfLife value
    args,       \* the arguments of that operation
    placed,     \* the placements stamped since the grid was last cleared
    steps,      \* next_generation calls since the grid was seeded or stamped
    out,        \* what the last operation returned
    config,     \* the constants the program was built with
    pc,         \* main: the statement it is at
    generation, \* main: the local generation
    buffer,     \* main: the local buffer
    window,     \* main: what the window shows
    frames,     \* main: the frames gif_generator has written
    result,     \* main: what it returned
    seeded      \* main: the grid as initialize left it

\* The state of main.
mainVars == <<pc, generation, buffer, window, frames, result, seeded>>

vars == <<width, height, grid, old, op, args, placed, steps, out, config,
          pc, generation, buffer, window, frames, result, seeded>>

\* ===== CONFIGURACION (main.rs 8-14) =====
\* The constants of the build: MainConfig is the build of the source.
MainConfig ==
    [WIDTH |-> 100, HEIGHT |-> 100, SCALE |-> 8, MAX_FRAMES |-> 200, FPS |-> 10]
WIDTH == config.WIDTH
HEIGHT == config.HEIGHT
SCALE == config.SCALE
WINDOW_WIDTH == WIDTH * SCALE
WINDOW_HEIGHT == HEIGHT * SCALE
MAX_FRAMES == config.MAX_FRAMES
FPS == config.FPS

\* The GameOfLife value of the current state.
game == [grid |-> grid, width |-> width, height |-> height]

NoArgs == <<>>
\* What a call gave back: nothing yet, a value, or a panic (an index out of
\* the bounds of a Vec: the call returns nothing).
NoOut == [kind |-> "none", value |-> <<>>]
Panic == [kind |-> "panic", value |-> <<>>]
Returned(v) == [kind |-> "value", value |-> v]
\* A Result: Ok(v), or Err(e), where e names the call that failed.
Ok(v) == [kind |-> "Ok", value |-> v]
Err(e) == [kind |-> "Err", value |-> e]

\* main is not running: the GameOfLife value is used on its own.
NoWindow == <<>>
NotRunning ==
    /\ pc = "none"
    /\ generation = 0
    /\ buffer = <<>>
    /\ window = NoWindow
    /\ frames = <<>>
    /\ result = NoOut
    /\ seeded = <<>>

Rows(h) == 0 .. (h - 1)
Cols(w) == 0 .. (w - 1)

\* GameOfLife::new
new(w, h) == [grid |-> [y \in Rows(h) |-> [x \in Cols(w) |-> Dead]],
              width |-> w, height |-> h]

\* ===== rule engine =====

is_valid_position(self, x, y) ==
    x >= 0 /\ x < self.width /\ y >= 0 /\ y < self.height

is_alive(self, x, y) == self.grid[y][x] = Alive

\* The (dx, dy) pairs in the order the two nested loops of
\* count_live_neighbors visit them (dy outer, dx inner, (0,0) skipped).
NeighborOffsets ==
    << <<-1, -1>>, <<0, -1>>, <<1, -1>>,
       <<-1, 0>>,             <<1, 0>>,
       <<-1, 1>>,  <<0, 1>>,  <<1, 1>> >>

\* A torus: positions outside the grid are wrapped to the opposite edge.
RECURSIVE count_wrapping_from(_, _, _, _)
count_wrapping_from(self, x, y, i) ==
    IF i > Len(NeighborOffsets) THEN 0
    ELSE LET nx == (x + NeighborOffsets[i][1]) % self.width
             ny == (y + NeighborOffsets[i][2]) % self.height
         IN  (IF is_alive(self, nx, ny) THEN 1 ELSE 0)
             + count_wrapping_from(self, x, y, i + 1)

count_live_neighbors_wrapping(self, x, y) == count_wrapping_from(self, x, y, 1)

\* Positions outside the grid are counted as live neighbours.
RECURSIVE count_border_alive_from(_, _, _, _)
count_border_alive_from(self, x, y, i) ==
    IF i > Len(NeighborOffsets) THEN 0
    ELSE LET nx == x + NeighborOffsets[i][1]
             ny == y + NeighborOffsets[i][2]
         IN  (IF ~is_valid_position(self, nx, ny) \/ is_alive(self, nx, ny)
              THEN 1 ELSE 0)
             + count_border_alive_from(self, x, y, i + 1)

count_live_neighbors_border_alive(self, x, y) ==
    count_border_alive_from(self, x, y, 1)

\* The loop of count_live_neighbors from its i-th iteration on.
RECURSIVE count_from(_, _, _, _)
count_from(self, x, y, i) ==
    IF i > Len(NeighborOffsets) THEN 0
    ELSE LET nx == x + NeighborOffsets[i][1]
             ny == y + NeighborOffsets[i][2]
         IN  (IF is_valid_position(self, nx, ny) /\ is_alive(self, nx, ny)
              THEN 1 ELSE 0)
             + count_from(self, x, y, i + 1)

count_live_neighbors(self, x, y) == count_from(self, x, y, 1)

\* Birth on 2 or 3 neighbours instead of exactly 3.
apply_rules_birth2(current_state, neighbors) ==
    IF current_state = Alive /\ neighbors < 2 THEN Dead
    ELSE IF current_state = Alive /\ neighbors \in {2, 3} THEN Alive
    ELSE IF current_state = Alive /\ neighbors > 3 THEN Dead
    ELSE IF current_state = Dead /\ neighbors \in {2, 3} THEN Alive
    ELSE current_state

\* An Alive cell survives on exactly 3 neighbours only.
apply_rules_survive3(current_state, neighbors) ==
    IF current_state = Alive /\ neighbors < 2 THEN Dead
    ELSE IF current_state = Alive /\ neighbors = 3 THEN Alive
    ELSE IF current_state = Alive /\ neighbors > 2 THEN Dead
    ELSE IF current_state = Dead /\ neighbors = 3 THEN Alive
    ELSE IF current_state = Alive THEN Dead
    ELSE current_state

\* The match of apply_rules, arm by arm.
apply_rules(current_state, neighbors) ==
    IF current_state = Alive /\ neighbors < 2 THEN Dead
    ELSE IF current_state = Alive /\ neighbors \in {2, 3} THEN Alive
    ELSE IF current_state = Alive /\ neighbors > 3 THEN Dead
    ELSE IF current_state = Dead /\ neighbors = 3 THEN Alive
    ELSE current_state

\* An in-place update: each cell is computed from the grid that already holds
\* the new values of the cells before it.
RECURSIVE inplace_row(_, _, _)
inplace_row(self, y, x) ==
    IF x = self.width THEN self
    ELSE LET neighbors == count_live_neighbors(self, x, y)
         IN  inplace_row(
                 [self EXCEPT !.grid[y][x] = apply_rules(self.grid[y][x], neighbors)],
                 y, x + 1)

RECURSIVE inplace_rows(_, _)
inplace_rows(self, y) ==
    IF y = self.height THEN self
    ELSE inplace_rows(inplace_row(self, y, 0), y + 1)

next_generation_inplace(self) == inplace_rows(self, 0)

\* The running call of next_generation: self and the local new_grid.
\* The inner loop (for x in 0..self.width) from x on: reads self.grid,
\* writes new_grid.
\* A step whose new grid is sized by the constants of the build and not by
\* the grid's own dimensions.
next_generation_global(self) ==
    [self EXCEPT !.grid =
        [y \in Rows(HEIGHT) |-> [x \in Cols(WIDTH) |->
            IF is_valid_position(self, x, y)
            THEN apply_rules(self.grid[y][x], count_live_neighbors(self, x, y))
            ELSE Dead]]]

RECURSIVE next_generation_row(_, _, _)
next_generation_row(frame, y, x) ==
    IF x = frame.self.width THEN frame
    ELSE LET neighbors == count_live_neighbors(frame.self, x, y)
         IN  next_generation_row(
                 [frame EXCEPT !.new_grid[y][x] =
                     apply_rules(frame.self.grid[y][x], neighbors)],
                 y, x + 1)

\* The outer loop of next_generation (for y in 0..self.height) from y on.
RECURSIVE next_generation_rows(_, _)
next_generation_rows(frame, y) ==
    IF y = frame.self.height THEN frame
    ELSE next_generation_rows(next_generation_row(frame, y, 0), y + 1)

\* GameOfLife::next_generation: new_grid starts as a clone of self.grid and
\* replaces self.grid after the loops.
next_generation(self) ==
    [self EXCEPT !.grid =
        next_generation_rows([self |-> self, new_grid |-> self.grid], 0).new_grid]

\* ===== PATRONES CONOCIDOS =====
\* Each pattern is the array of (dx, dy) offsets of the add_* function.

Glider == << <<1, 0>>, <<2, 1>>, <<0, 2>>, <<1, 2>>, <<2, 2>> >>

Block == << <<0, 0>>, <<0, 1>>, <<1, 0>>, <<1, 1>> >>

Blinker == << <<0, 0>>, <<1, 0>>, <<2, 0>> >>

Toad == << <<1, 0>>, <<2, 0>>, <<3, 0>>, <<0, 1>>, <<1, 1>>, <<2, 1>> >>

Beacon == << <<0, 0>>, <<0, 1>>, <<1, 0>>, <<2, 3>>, <<3, 2>>, <<3, 3>> >>

Beehive == << <<1, 0>>, <<2, 0>>, <<0, 1>>, <<3, 1>>, <<1, 2>>, <<2, 2>> >>

LightweightSpaceship ==
    << <<0, 0>>, <<3, 0>>,
       <<4, 1>>,
       <<0, 2>>, <<4, 2>>,
       <<1, 3>>, <<2, 3>>, <<3, 3>>, <<4, 3>> >>

Pulsar ==
    << <<2, 0>>, <<3, 0>>, <<4, 0>>, <<8, 0>>, <<9, 0>>, <<10, 0>>,
       <<0, 2>>, <<5, 2>>, <<7, 2>>, <<12, 2>>,
       <<0, 3>>, <<5, 3>>, <<7, 3>>, <<12, 3>>,
       <<0, 4>>, <<5, 4>>, <<7, 4>>, <<12, 4>>,
       <<2, 5>>, <<3, 5>>, <<4, 5>>, <<8, 5>>, <<9, 5>>, <<10, 5>>,
       <<2, 7>>, <<3, 7>>, <<4, 7>>, <<8, 7>>, <<9, 7>>, <<10, 7>>,
       <<0, 8>>, <<5, 8>>, <<7, 8>>, <<12, 8>>,
       <<0, 9>>, <<5, 9>>, <<7, 9>>, <<12, 9>>,
       <<0, 10>>, <<5, 10>>, <<7, 10>>, <<12, 10>>,
       <<2, 12>>, <<3, 12>>, <<4, 12>>, <<8, 12>>, <<9, 12>>, <<10, 12>> >>

\* Whether grid g has a cell [y][x]: what the index of a Vec checks.
InBounds(g, x, y) == y \in DOMAIN g /\ x \in DOMAIN g[y]

\* A stamp that wraps an offset past the right or bottom edge to the
\* opposite edge.
RECURSIVE add_pattern_wrapping_from(_, _, _, _, _)
add_pattern_wrapping_from(self, base_x, base_y, pattern, i) ==
    IF i > Len(pattern) THEN self
    ELSE LET x == (base_x + pattern[i][1]) % self.width
             y == (base_y + pattern[i][2]) % self.height
         IN  IF InBounds(self.grid, x, y)
             THEN add_pattern_wrapping_from([self EXCEPT !.grid[y][x] = Alive],
                                            base_x, base_y, pattern, i + 1)
             ELSE Panic

add_pattern_wrapping(self, base_x, base_y, pattern) ==
    add_pattern_wrapping_from(self, base_x, base_y, pattern, 1)

\* The loop of add_pattern from the i-th offset on.  The write
\* self.grid[y][x] = Alive indexes two Vecs: outside their bounds it panics
\* and the call ends there.
RECURSIVE add_pattern_from(_, _, _, _, _)
add_pattern_from(self, base_x, base_y, pattern, i) ==
    IF i > Len(pattern) THEN self
    ELSE LET x == base_x + pattern[i][1]
             y == base_y + pattern[i][2]
         IN  IF x < self.width /\ y < self.height
             THEN IF InBounds(self.grid, x, y)
                  THEN add_pattern_from([self EXCEPT !.grid[y][x] = Alive],
                                        base_x, base_y, pattern, i + 1)
                  ELSE Panic
             ELSE add_pattern_from(self, base_x, base_y, pattern, i + 1)

\* GameOfLife::add_pattern
add_pattern(self, base_x, base_y, pattern) ==
    add_pattern_from(self, base_x, base_y, pattern, 1)

add_glider(self, x, y) == add_pattern(self, x, y, Glider)

add_block(self, x, y) == add_pattern(self, x, y, Block)

\* A blinker laid out as a column instead of a row.
add_blinker_vertical(self, x, y) ==
    add_pattern(self, x, y, << <<0, 0>>, <<0, 1>>, <<0, 2>> >>)

add_blinker(self, x, y) == add_pattern(self, x, y, Blinker)

add_toad(self, x, y) == add_pattern(self, x, y, Toad)

add_beacon(self, x, y) == add_pattern(self, x, y, Beacon)

add_beehive(self, x, y) == add_pattern(self, x, y, Beehive)

add_lightweight_spaceship(self, x, y) == add_pattern(self, x, y, LightweightSpaceship)

add_pulsar(self, x, y) == add_pattern(self, x, y, Pulsar)

\* ===== seeding =====

\* Only the first row is cleared.
clear_grid_first_row(self) ==
    [self EXCEPT !.grid =
        [y \in DOMAIN self.grid |->
            IF y = 0 THEN [x \in DOMAIN self.grid[y] |-> Dead] ELSE self.grid[y]]]

\* GameOfLife::clear_grid: every cell of every row becomes Dead.
clear_grid(self) ==
    [self EXCEPT !.grid =
        [y \in DOMAIN self.grid |-> [x \in DOMAIN self.grid[y] |-> Dead]]]

\* A probability is a number of hundredths, 0 .. 100; a draw of the random
\* generator is a number of hundredths in [0, 1).  DrawValues are the
\* smallest and the largest draw.
DrawValues == {0, 99}

Draws(self) == [Rows(self.height) -> [Cols(self.width) -> DrawValues]]

\* rng.gen_bool(probability) on draw u: true with the given probability, so
\* never for probability 0 and always for probability 1.
gen_bool(probability, u) == u < probability

\* GameOfLife::add_random_cells: draws[y][x] is what the generator draws in
\* iteration (y, x) of the loops; a cell is set Alive or left as it is.
add_random_cells(self, probability, draws) ==
    [self EXCEPT !.grid =
        [y \in Rows(self.height) |-> [x \in Cols(self.width) |->
            IF gen_bool(probability, draws[y][x]) THEN Alive ELSE self.grid[y][x]]]]

\* GameOfLife::add_known_patterns: the ten placements, in the order of the calls.
add_known_patterns(self) ==
    add_pulsar(
    add_lightweight_spaceship(
    add_beehive(
    add_beacon(
    add_toad(
    add_blinker(
    add_block(
    add_block(
    add_glider(
    add_glider(self, 15, 15), 70, 10), 5, 5), 90, 90), 25, 25), 35, 35),
        45, 45), 60, 60), 10, 50), 50, 20)

\* An initialize that stamps the patterns first, then clears and adds noise.
initialize_patterns_first(self, draws) ==
    add_random_cells(clear_grid(add_known_patterns(self)), 15, draws)

\* GameOfLife::initialize
initialize(self, draws) ==
    add_known_patterns(add_random_cells(clear_grid(self), 15, draws))

\* ===== queries =====

\* GameOfLife::to_gif_frame_data: the loops run over the global WIDTH and
\* HEIGHT and index self.grid[y][x]; the first index outside the grid's own
\* rows or columns panics.  The returned Vec<u8> is a sequence: frame_data[i]
\* of the source is element i + 1.
to_gif_frame_data(self) ==
    IF self.height < HEIGHT \/ self.width < WIDTH THEN Panic
    ELSE Returned([i \in 1 .. (WIDTH * HEIGHT) |->
             IF self.grid[(i - 1) \div WIDTH][(i - 1) % WIDTH] = Alive
             THEN 1 ELSE 0])

\* GameOfLife::get_color: 0x00FFFFFF is 16777215, 0x00001122 is 4386.
get_color(self, x, y) ==
    IF x < self.width /\ y < self.height
    THEN IF self.grid[y][x] = Alive THEN 16777215 ELSE 4386
    ELSE 0

\* GameOfLife::render: the loops run over the global WINDOW_HEIGHT and
\* WINDOW_WIDTH, whatever the grid's own dimensions.  frame holds self, the
\* caller's buffer and whether a write fell outside it (a panic, which ends
\* the loops).  buffer[i] of the source is element i + 1.
RECURSIVE render_row(_, _, _)
render_row(frame, y, x) ==
    IF x = WINDOW_WIDTH \/ frame.panicked THEN frame
    ELSE LET grid_x == x \div SCALE
             grid_y == y \div SCALE
             color == get_color(frame.self, grid_x, grid_y)
             index == y * WINDOW_WIDTH + x
         IN  IF (index + 1) \in DOMAIN frame.buffer
             THEN render_row([frame EXCEPT !.buffer[index + 1] = color], y, x + 1)
             ELSE [frame EXCEPT !.panicked = TRUE]

RECURSIVE render_rows(_, _)
render_rows(frame, y) ==
    IF y = WINDOW_HEIGHT \/ frame.panicked THEN frame
    ELSE render_rows(render_row(frame, y, 0), y + 1)

\* buffer0 is the caller's buffer as it is passed in.
render(self, buffer0) ==
    LET frame == render_rows([self |-> self, buffer |-> buffer0, panicked |-> FALSE], 0)
    IN  IF frame.panicked THEN Panic ELSE Returned(frame.buffer)

\* vec![value; n]
vec(value, n) == [i \in 1 .. n |-> value]

\* ===== operations on the GameOfLife value =====

\* The shapes and the grids a seeded GameOfLife value can have.
Shapes(maxCells) ==
    {s \in (1 .. maxCells) \X (1 .. maxCells) : s[1] * s[2] <= maxCells}

Grids(w, h) == [Rows(h) -> [Cols(w) -> CellState]]

NextGeneration ==
    /\ grid' = next_generation(game).grid
    /\ old' = grid
    /\ op' = "next_generation"
    /\ args' = NoArgs
    /\ out' = NoOut
    /\ UNCHANGED <<width, height, placed, config>>

ToGifFrameData ==
    /\ out' = to_gif_frame_data(game)
    /\ old' = grid
    /\ op' = "to_gif_frame_data"
    /\ args' = NoArgs
    /\ UNCHANGED <<width, height, grid, placed, steps, config, mainVars>>

CountLiveNeighbors ==
    \E x \in Cols(width), y \in Rows(height) :
        /\ out' = Returned(count_live_neighbors(game, x, y))
        /\ old' = grid
        /\ op' = "count_live_neighbors"
        /\ args' = <<x, y>>
        /\ UNCHANGED <<width, height, grid, placed, steps, config, mainVars>>

\* get_color at every position of the grid, and one column and one row past it.
GetColor ==
    \E x \in 0 .. width, y \in 0 .. height :
        /\ out' = Returned(get_color(game, x, y))
        /\ old' = grid
        /\ op' = "get_color"
        /\ args' = <<x, y>>
        /\ UNCHANGED <<width, height, grid, placed, steps, config, mainVars>>

\* The lengths of the buffers render is called with: that of the window
\* (main.rs 314), and that of the grid's own dimensions at this scale.
BufferLengths ==
    {WINDOW_WIDTH * WINDOW_HEIGHT, (width * SCALE) * (height * SCALE)}

Render ==
    \E len \in BufferLengths :
        /\ out' = render(game, vec(0, len))
        /\ old' = grid
        /\ op' = "render"
        /\ args' = <<len>>
        /\ UNCHANGED <<width, height, grid, placed, steps, config, mainVars>>

\* ---- SpecStep: one generation after another from every seeded grid ----

InitStep ==
    /\ \E s \in Shapes(MaxCells) :
         /\ width = s[1]
         /\ height = s[2]
         /\ grid \in Grids(s[1], s[2])
    /\ old = grid
    /\ op = "seed"
    /\ args = NoArgs
    /\ placed = <<>>
    /\ steps = 0
    /\ out = NoOut
    /\ config = MainConfig
    /\ NotRunning

StepAny == NextGeneration /\ UNCHANGED <<steps, mainVars>>

NextStep == StepAny \/ ToGifFrameData \/ CountLiveNeighbors

SpecStep == InitStep /\ [][NextStep]_vars

\* ---- SpecPattern: one pattern stamped on the all-Dead grid, then stepped ----

\* The grid is as GameOfLife::new or the random seeding left it: no pattern
\* stamped, no generation computed.
Unstamped == op \in {"new", "seed"}

\* The base positions a pattern is stamped at: every cell of the grid, and
\* one column and one row past it.
Bases == (0 .. width) \X (0 .. height)

\* A placement: the add_* function called on self at base position (x, y),
\* which gave r, the GameOfLife value after it or a panic.
Placed(name, x, y, r) ==
    /\ IF r = Panic
       THEN grid' = grid /\ out' = Panic
       ELSE grid' = r.grid /\ out' = NoOut
    /\ old' = grid
    /\ op' = name
    /\ args' = <<x, y>>
    /\ placed' = Append(placed, [pattern |-> name, x |-> x, y |-> y])
    /\ UNCHANGED <<width, height, steps, config, mainVars>>

AddGlider ==
    /\ Unstamped
    /\ \E b \in Bases : Placed("add_glider", b[1], b[2], add_glider(game, b[1], b[2]))

AddBlock ==
    /\ Unstamped
    /\ \E b \in Bases : Placed("add_block", b[1], b[2], add_block(game, b[1], b[2]))

AddBlinker ==
    /\ Unstamped
    /\ \E b \in Bases : Placed("add_blinker", b[1], b[2], add_blinker(game, b[1], b[2]))

AddToad ==
    /\ Unstamped
    /\ \E b \in Bases : Placed("add_toad", b[1], b[2], add_toad(game, b[1], b[2]))

AddBeacon ==
    /\ Unstamped
    /\ \E b \in Bases : Placed("add_beacon", b[1], b[2], add_beacon(game, b[1], b[2]))

AddBeehive ==
    /\ Unstamped
    /\ \E b \in Bases : Placed("add_beehive", b[1], b[2], add_beehive(game, b[1], b[2]))

AddLightweightSpaceship ==
    /\ Unstamped
    /\ \E b \in Bases : Placed("add_lightweight_spaceship", b[1], b[2], add_lightweight_spaceship(game, b[1], b[2]))

AddPulsar ==
    /\ Unstamped
    /\ \E b \in Bases : Placed("add_pulsar", b[1], b[2], add_pulsar(game, b[1], b[2]))

StepCounted ==
    /\ steps < MaxGen
    /\ NextGeneration
    /\ steps' = steps + 1
    /\ UNCHANGED mainVars

InitPattern ==
    /\ width = PatWidth
    /\ height = PatHeight
    /\ grid = new(PatWidth, PatHeight).grid
    /\ old = grid
    /\ op = "new"
    /\ args = <<PatWidth, PatHeight>>
    /\ placed = <<>>
    /\ steps = 0
    /\ out = NoOut
    /\ config = MainConfig
    /\ NotRunning

NextPattern ==
    \/ AddGlider
    \/ AddBlock
    \/ AddBlinker
    \/ AddToad
    \/ AddBeacon
    \/ AddBeehive
    \/ AddLightweightSpaceship
    \/ AddPulsar
    \/ StepCounted

SpecPattern == InitPattern /\ [][NextPattern]_vars

\* ---- SpecOscillator: one oscillator stamped on the all-Dead grid, then stepped ----

InitOscillator ==
    /\ width = OscWidth
    /\ height = OscHeight
    /\ grid = new(OscWidth, OscHeight).grid
    /\ old = grid
    /\ op = "new"
    /\ args = <<OscWidth, OscHeight>>
    /\ placed = <<>>
    /\ steps = 0
    /\ out = NoOut
    /\ config = MainConfig
    /\ NotRunning

NextOscillator ==
    \/ AddToad
    \/ AddBeacon
    \/ AddPulsar
    \/ StepCounted

SpecOscillator == InitOscillator /\ [][NextOscillator]_vars

\* ---- SpecStamp: one pattern stamped on a randomly seeded grid ----

InitStamp ==
    /\ \E s \in Shapes(MaxStampCells) :
         /\ width = s[1]
         /\ height = s[2]
         /\ grid \in Grids(s[1], s[2])
    /\ old = grid
    /\ op = "seed"
    /\ args = NoArgs
    /\ placed = <<>>
    /\ steps = 0
    /\ out = NoOut
    /\ config = MainConfig
    /\ NotRunning

NextStamp ==
    \/ AddGlider
    \/ AddBlock
    \/ AddBlinker
    \/ AddToad
    \/ AddBeacon
    \/ AddBeehive
    \/ AddLightweightSpaceship
    \/ AddPulsar

SpecStamp == InitStamp /\ [][NextStamp]_vars

\* ---- SpecSeed: the grid is seeded again and again ----

\* The densities the grid is seeded with: none, that of initialize, all.
Densities == {0, 15, 100}

\* Seeding without placements: clear_grid, then add_random_cells(p).
SeedRandom ==
    \E p \in Densities, draws \in Draws(game) :
        /\ grid' = add_random_cells(clear_grid(game), p, draws).grid
        /\ old' = grid
        /\ op' = "seed"
        /\ args' = <<p>>
        /\ placed' = <<>>
        /\ steps' = 0
        /\ out' = NoOut
        /\ UNCHANGED <<width, height, config, mainVars>>

\* game.initialize() when the random source draws draws.
Initialized(draws) ==
    /\ grid' = initialize(game, draws).grid
    /\ old' = grid
    /\ op' = "initialize"
    /\ args' = NoArgs
    /\ placed' = <<>>
    /\ steps' = 0
    /\ out' = NoOut
    /\ UNCHANGED <<width, height, config>>

\* game.initialize(), whatever the random source draws.
InitializeCall == \E draws \in Draws(game) : Initialized(draws)

Initialize == InitializeCall /\ UNCHANGED mainVars

InitSeed ==
    /\ \E s \in Shapes(MaxSeedCells) :
         /\ width = s[1]
         /\ height = s[2]
         /\ grid = new(s[1], s[2]).grid
         /\ args = <<s[1], s[2]>>
    /\ old = grid
    /\ op = "new"
    /\ placed = <<>>
    /\ steps = 0
    /\ out = NoOut
    /\ config = MainConfig
    /\ NotRunning

NextSeed == SeedRandom \/ Initialize

SpecSeed == InitSeed /\ [][NextSeed]_vars

\* ---- SpecView: a small grid is seeded, stepped and read ----

\* A build with a small window.
ViewConfig ==
    [WIDTH |-> ViewWidth, HEIGHT |-> ViewHeight, SCALE |-> SmallScale,
     MAX_FRAMES |-> SmallFrames, FPS |-> 10]

InitView ==
    /\ config = ViewConfig
    /\ \E s \in Shapes(MaxViewCells) :
         /\ width = s[1]
         /\ height = s[2]
         /\ grid = new(s[1], s[2]).grid
         /\ args = <<s[1], s[2]>>
    /\ old = grid
    /\ op = "new"
    /\ placed = <<>>
    /\ steps = 0
    /\ out = NoOut
    /\ NotRunning

NextView ==
    \/ Initialize
    \/ StepAny
    \/ GetColor
    \/ Render
    \/ ToGifFrameData

SpecView == InitView /\ [][NextView]_vars

\* ---- SpecMain: main, from GameOfLife::new to its return ----

\* A build small enough to run main to its end from every seeded grid.
SmallConfig ==
    [WIDTH |-> SmallWidth, HEIGHT |-> SmallHeight, SCALE |-> SmallScale,
     MAX_FRAMES |-> SmallFrames, FPS |-> 10]

\* A loop body that renders and presents before it computes the generation.
LoopBodyRenderFirst ==
    <<"render", "update_with_buffer", "next_generation", "add_frame">>

\* A loop body that exports the frame before it computes the generation.
LoopBodyExportFirst ==
    <<"add_frame", "next_generation", "render", "update_with_buffer">>

\* The statements of the loop body, in the order of the source; the println
\* that ends the body writes to the standard output only.
LoopBody == <<"next_generation", "render", "update_with_buffer", "add_frame">>

\* The statement after a statement of the loop body: the next one, or the
\* loop condition after the last.
Following(label) ==
    LET i == CHOOSE j \in 1 .. Len(LoopBody) : LoopBody[j] = label
    IN  IF i < Len(LoopBody) THEN LoopBody[i + 1] ELSE "while"

\* A loop condition that lets one generation too many through.
loop_condition_off_by_one(is_open, is_key_down, n) ==
    is_open /\ ~is_key_down /\ n <= MAX_FRAMES

\* The condition of the while loop.
loop_condition(is_open, is_key_down, n) ==
    is_open /\ ~is_key_down /\ n < MAX_FRAMES

\* An Err that is dropped: main goes on to the statement next.
PropagateIgnoring(r, next) == [pc |-> next, result |-> NoOut]

\* The ? operator on the Result r: an Err is returned from main at once, an
\* Ok lets main go on to the statement next.
Propagate(r, next) ==
    IF r.kind = "Err"
    THEN [pc |-> "done", result |-> r]
    ELSE [pc |-> next, result |-> NoOut]

\* main.rs 298: the state after GameOfLife::new(WIDTH, HEIGHT) in the build
\* with the constants c.
MainStarts(c) ==
    /\ config = c
    /\ LET self == new(WIDTH, HEIGHT)
       IN  width = self.width /\ height = self.height /\ grid = self.grid
    /\ old = grid
    /\ op = "new"
    /\ args = <<WIDTH, HEIGHT>>
    /\ placed = <<>>
    /\ steps = 0
    /\ out = NoOut
    /\ pc = "initialize"
    /\ generation = 0
    /\ buffer = <<>>
    /\ window = NoWindow
    /\ frames = <<>>
    /\ result = NoOut
    /\ seeded = <<>>

InitMain == MainStarts(SmallConfig)

\* main.rs 299
MainInitialize ==
    /\ pc = "initialize"
    /\ InitializeCall
    /\ seeded' = grid'
    /\ pc' = "GifGenerator::new"
    /\ UNCHANGED <<generation, buffer, window, frames, result>>

\* main.rs 302: File::create, Encoder::new and write_extension can each fail.
GifGeneratorNew ==
    /\ pc = "GifGenerator::new"
    /\ \E r \in {Ok(<<>>), Err("File::create"), Err("Encoder::new"), Err("write_extension")} :
         /\ out' = r
         /\ pc' = Propagate(r, "Window::new").pc
         /\ result' = Propagate(r, "Window::new").result
    /\ frames' = <<>>
    /\ old' = grid
    /\ op' = "GifGenerator::new"
    /\ args' = <<"conway_game_of_life.gif">>
    /\ UNCHANGED <<width, height, grid, placed, steps, config,
                   generation, buffer, window, seeded>>

\* main.rs 305-315: the window, then the locals buffer and generation.
WindowNew ==
    /\ pc = "Window::new"
    /\ \E r \in {Ok(<<>>), Err("Window::new")} :
         /\ out' = r
         /\ pc' = Propagate(r, "while").pc
         /\ result' = Propagate(r, "while").result
         /\ buffer' = IF r.kind = "Ok" THEN vec(0, WINDOW_WIDTH * WINDOW_HEIGHT) ELSE buffer
    /\ generation' = 0
    /\ old' = grid
    /\ op' = "Window::new"
    /\ args' = <<WINDOW_WIDTH, WINDOW_HEIGHT>>
    /\ UNCHANGED <<width, height, grid, placed, steps, config,
                   window, frames, seeded>>

\* main.rs 319-321 and 341: the condition is evaluated on what the window
\* reports; main returns Ok(()) when it is false.
MainWhile ==
    /\ pc = "while"
    /\ \E is_open \in BOOLEAN, is_key_down \in BOOLEAN :
         /\ args' = <<is_open, is_key_down>>
         /\ out' = Returned(loop_condition(is_open, is_key_down, generation))
         /\ IF loop_condition(is_open, is_key_down, generation)
            THEN pc' = LoopBody[1] /\ result' = result
            ELSE pc' = "done" /\ result' = Ok(<<>>)
    /\ old' = grid
    /\ op' = "while"
    /\ UNCHANGED <<width, height, grid, placed, steps, config,
                   generation, buffer, window, frames, seeded>>

\* main.rs 323-324
MainNextGeneration ==
    /\ pc = "next_generation"
    /\ NextGeneration
    /\ steps' = steps + 1
    /\ generation' = generation + 1
    /\ pc' = Following("next_generation")
    /\ UNCHANGED <<buffer, window, frames, result, seeded>>

\* main.rs 327
MainRender ==
    /\ pc = "render"
    /\ LET r == render(game, buffer)
       IN  IF r = Panic
           THEN buffer' = buffer /\ pc' = "done" /\ result' = Panic
           ELSE buffer' = r.value /\ pc' = Following("render") /\ result' = result
    /\ old' = grid
    /\ op' = "render"
    /\ args' = <<Len(buffer)>>
    /\ out' = NoOut
    /\ UNCHANGED <<width, height, grid, placed, steps, config,
                   generation, window, frames, seeded>>

\* main.rs 328
MainUpdateWithBuffer ==
    /\ pc = "update_with_buffer"
    /\ \E r \in {Ok(<<>>), Err("update_with_buffer")} :
         /\ out' = r
         /\ window' = IF r.kind = "Ok" THEN buffer ELSE window
         /\ pc' = Propagate(r, Following("update_with_buffer")).pc
         /\ result' = Propagate(r, Following("update_with_buffer")).result
    /\ old' = grid
    /\ op' = "update_with_buffer"
    /\ args' = <<WINDOW_WIDTH, WINDOW_HEIGHT>>
    /\ UNCHANGED <<width, height, grid, placed, steps, config,
                   generation, buffer, frames, seeded>>

\* GifGenerator::add_frame: the Frame handed to write_frame.
Frame(frame_data) ==
    [width |-> WIDTH, height |-> HEIGHT, buffer |-> frame_data,
     delay |-> 100 \div FPS]

\* main.rs 331-332: to_gif_frame_data, then add_frame, whose write_frame can
\* fail.
MainAddFrame ==
    /\ pc = "add_frame"
    /\ LET frame_data == to_gif_frame_data(game)
       IN  IF frame_data = Panic
           THEN /\ out' = Panic
                /\ frames' = frames
                /\ pc' = "done"
                /\ result' = Panic
           ELSE \E r \in {Ok(<<>>), Err("write_frame")} :
                  /\ out' = r
                  /\ frames' = IF r.kind = "Ok"
                               THEN Append(frames, Frame(frame_data.value))
                               ELSE frames
                  /\ pc' = Propagate(r, Following("add_frame")).pc
                  /\ result' = Propagate(r, Following("add_frame")).result
    /\ old' = grid
    /\ op' = "add_frame"
    /\ args' = NoArgs
    /\ UNCHANGED <<width, height, grid, placed, steps, config,
                   generation, buffer, window, seeded>>

NextMain ==
    \/ MainInitialize
    \/ GifGeneratorNew
    \/ WindowNew
    \/ MainWhile
    \/ MainNextGeneration
    \/ MainRender
    \/ MainUpdateWithBuffer
    \/ MainAddFrame

SpecMain == InitMain /\ [][NextMain]_vars

\* The statements main can be at, and "done" once it has returned.
Labels ==
    {"initialize", "GifGenerator::new", "Window::new", "while", "done"}
        \cup {LoopBody[i] : i \in 1 .. Len(LoopBody)}

\* main goes from the statement it is at to another one.
Advance == pc # "done" /\ pc' \in Labels \ {pc}

\* main runs on: every call it makes returns, so main does not stay for ever
\* at a statement it has reached.
SpecMainFair == SpecMain /\ WF_pc(Advance)

\* ---- SpecStartup: main's first statements in the build of the source ----

\* What the random source draws over a large grid, sampled: nothing below a
\* probability, or the draws below every probability on the diagonal stripes
\* (x + y) % m = r.
SampleDraws(self) ==
    {[y \in Rows(self.height) |-> [x \in Cols(self.width) |-> 99]]}
        \cup {[y \in Rows(self.height) |-> [x \in Cols(self.width) |->
                   IF (x + y) % m = r THEN 0 ELSE 99]] :
                 m \in 1 .. MaxStride, r \in 0 .. (MaxStride - 1)}

InitStartup == MainStarts(MainConfig)

\* main.rs 299 on the 100 x 100 grid.
MainInitializeSampled ==
    /\ pc = "initialize"
    /\ \E draws \in SampleDraws(game) : Initialized(draws)
    /\ seeded' = grid'
    /\ pc' = "GifGenerator::new"
    /\ UNCHANGED <<generation, buffer, window, frames, result>>

\* The generations of the loop are out of reach at this size: the
\* specification ends with the creation of the output file.
NextStartup == MainInitializeSampled \/ GifGeneratorNew

SpecStartup == InitStartup /\ [][NextStartup]_vars

\* ===== the rule engine's claims (SpecStep) =====

\* The GameOfLife value before the last operation.
oldGame == [grid |-> old, width |-> width, height |-> height]

Cells == Cols(width) \X Rows(height)

\* The positions of the Moore neighbourhood of (x, y) that lie in the grid.
MooreInside(x, y) ==
    {p \in ((x - 1) .. (x + 1)) \X ((y - 1) .. (y + 1)) :
        /\ p # <<x, y>>
        /\ p[1] \in Cols(width)
        /\ p[2] \in Rows(height)}

\* The number of Alive cells of grid g among them.
LiveMoore(g, x, y) == Cardinality({p \in MooreInside(x, y) : g[p[2]][p[1]] = Alive})

AllDead(g) == \A c \in Cells : g[c[2]][c[1]] = Dead

\* C1: after one next_generation a cell is Alive if and only if, in the grid
\* before the step, it was Alive with exactly 2 or 3 live Moore neighbours or
\* Dead with exactly 3 (B3/S23); in every other case it is Dead.
C1_ConwayRule ==
    op = "next_generation" =>
        \A c \in Cells :
            LET x == c[1]
                y == c[2]
                n == LiveMoore(old, x, y)
            IN  /\ grid[y][x] \in CellState
                /\ grid[y][x] = Alive <=>
                       \/ old[y][x] = Alive /\ n \in {2, 3}
                       \/ old[y][x] = Dead /\ n = 3

\* A step in which every arm of the rule is taken: a survival, a death by
\* underpopulation, a death by overpopulation, a birth, a Dead cell that stays Dead.
C1_Witness ==
    /\ op = "next_generation"
    /\ \E c \in Cells : old[c[2]][c[1]] = Alive /\ grid[c[2]][c[1]] = Alive
    /\ \E c \in Cells : /\ old[c[2]][c[1]] = Alive
                        /\ LiveMoore(old, c[1], c[2]) < 2
                        /\ grid[c[2]][c[1]] = Dead
    /\ \E c \in Cells : /\ old[c[2]][c[1]] = Alive
                        /\ LiveMoore(old, c[1], c[2]) > 3
                        /\ grid[c[2]][c[1]] = Dead
    /\ \E c \in Cells : old[c[2]][c[1]] = Dead /\ grid[c[2]][c[1]] = Alive
    /\ \E c \in Cells : old[c[2]][c[1]] = Dead /\ grid[c[2]][c[1]] = Dead

\* C2: next_generation is a synchronous update: every cell of the new grid is
\* the rule applied to that cell's state and neighbour count in the grid as it
\* was before the step, whatever the step had already written.
C2_SynchronousUpdate ==
    op = "next_generation" =>
        grid = [y \in Rows(height) |-> [x \in Cols(width) |->
                   apply_rules(old[y][x], count_live_neighbors(oldGame, x, y))]]

\* A step whose result an update in place would not have given.
C2_Witness ==
    /\ op = "next_generation"
    /\ grid # next_generation_inplace(oldGame).grid

\* C3: count_live_neighbors(x, y) is the number of Alive cells among the
\* Moore-neighbour positions inside the grid; positions outside are absent and
\* never wrapped, so a corner cell counts at most 3 and an edge cell at most 5.
C3_HardEdges ==
    op = "count_live_neighbors" =>
        LET x == args[1]
            y == args[2]
            onEdgeX == x = 0 \/ x = width - 1
            onEdgeY == y = 0 \/ y = height - 1
        IN  /\ out.kind = "value"
            /\ out.value = LiveMoore(grid, x, y)
            /\ (onEdgeX /\ onEdgeY) => out.value <= 3
            /\ (onEdgeX \/ onEdgeY) => out.value <= 5

\* The count of corner (0,0) of an all-Alive 3x3 grid: 3, where a torus gives 8.
C3_Witness ==
    /\ op = "count_live_neighbors"
    /\ args = <<0, 0>>
    /\ width = 3 /\ height = 3
    /\ \A c \in Cells : grid[c[2]][c[1]] = Alive
    /\ out.value = 3

\* C7: next_generation applied to an all-Dead grid yields an all-Dead grid.
C7_AllDeadStaysDead ==
    (op = "next_generation" /\ AllDead(old)) => AllDead(grid)

\* A step from the all-Dead 3x3 grid.
C7_Witness ==
    /\ op = "next_generation"
    /\ width = 3 /\ height = 3
    /\ AllDead(old)
    /\ AllDead(grid)

\* C8: for a grid of any width > 0 and height > 0, to_gif_frame_data returns
\* a sequence of length width*height with values in {0,1} whose element at
\* index y*width+x is 1 if and only if cell (x,y) is Alive.
C8_FrameOfOwnDimensions ==
    op = "to_gif_frame_data" =>
        /\ out.kind = "value"
        /\ Len(out.value) = width * height
        /\ \A c \in Cells :
               /\ out.value[c[2] * width + c[1] + 1] \in {0, 1}
               /\ out.value[c[2] * width + c[1] + 1] = 1 <=> grid[c[2]][c[1]] = Alive

\* ===== the pattern library's claims (SpecPattern) =====

\* The positions (x, y) of the Alive cells of grid g.
LiveSet(g) == {c \in Cells : g[c[2]][c[1]] = Alive}

\* The offsets of a pattern, and a set of positions moved by (x, y).
OffsetsOf(pattern) == {pattern[i] : i \in 1 .. Len(pattern)}

Translate(S, x, y) == {<<c[1] + x, c[2] + y>> : c \in S}

\* The grid holds one placement only, of the named add_* function.
Only(name) == Len(placed) = 1 /\ placed[1].pattern = name

\* The pattern stamped at (x, y) keeps at least one cell of margin to each of
\* the four edges of the grid.
AwayFromEdges(pattern, x, y) ==
    /\ x >= 1
    /\ y >= 1
    /\ \A c \in OffsetsOf(pattern) :
           x + c[1] + 1 < width /\ y + c[2] + 1 < height

\* C4: a Glider stamped at (x, y) on an otherwise all-Dead grid, away from the
\* edges, is after exactly 4 steps its own 5-cell shape stamped at (x+1, y+1),
\* and no other cell is Alive.
C4_GliderTranslates ==
    (Only("add_glider") /\ steps = 4
        /\ AwayFromEdges(Glider, placed[1].x, placed[1].y)) =>
        LiveSet(grid) = Translate(OffsetsOf(Glider), placed[1].x + 1, placed[1].y + 1)

\* The glider stamped at (2, 1), four steps later.
C4_Witness ==
    /\ Only("add_glider")
    /\ placed[1].x = 2 /\ placed[1].y = 1
    /\ AwayFromEdges(Glider, 2, 1)
    /\ steps = 4
    /\ LiveSet(grid) = {<<4, 2>>, <<5, 3>>, <<3, 4>>, <<4, 4>>, <<5, 4>>}

\* C5: a Blinker stamped at (x, y) away from the edges is after one step the
\* vertical 3-cell line through its centre cell (x+1, y), and after two steps
\* its original horizontal 3-cell set.
C5_BlinkerPeriod2 ==
    (Only("add_blinker") /\ AwayFromEdges(Blinker, placed[1].x, placed[1].y)) =>
        LET x == placed[1].x
            y == placed[1].y
        IN  /\ steps = 1 =>
                LiveSet(grid) = {<<x + 1, y - 1>>, <<x + 1, y>>, <<x + 1, y + 1>>}
            /\ steps = 2 =>
                LiveSet(grid) = {<<x, y>>, <<x + 1, y>>, <<x + 2, y>>}

\* The blinker stamped at (3, 2), one step later: the column x = 4.
C5_Witness ==
    /\ Only("add_blinker")
    /\ placed[1].x = 3 /\ placed[1].y = 2
    /\ AwayFromEdges(Blinker, 3, 2)
    /\ steps = 1
    /\ LiveSet(grid) = {<<4, 1>>, <<4, 2>>, <<4, 3>>}

\* C6: a Block or a Beehive stamped away from the edges is a fixed point: a
\* step leaves the grid as it was, and after any number of steps the live
\* cells are those that were stamped.
C6_StillLifes ==
    \A p \in {<<"add_block", Block>>, <<"add_beehive", Beehive>>} :
        (Only(p[1]) /\ AwayFromEdges(p[2], placed[1].x, placed[1].y)) =>
            /\ LiveSet(grid) =
                   Translate(OffsetsOf(p[2]), placed[1].x, placed[1].y)
            /\ op = "next_generation" => grid = old

\* The beehive stamped at (1, 1), three steps later.
C6_Witness ==
    /\ Only("add_beehive")
    /\ placed[1].x = 1 /\ placed[1].y = 1
    /\ steps = 3
    /\ op = "next_generation"
    /\ LiveSet(grid) = {<<2, 1>>, <<3, 1>>, <<1, 2>>, <<4, 2>>, <<2, 3>>, <<3, 3>>}

\* ===== the placement's claims (SpecStamp) =====

\* The pattern an add_* function stamps.
PatternOf(name) ==
    CASE name = "add_glider" -> Glider
      [] name = "add_block" -> Block
      [] name = "add_blinker" -> Blinker
      [] name = "add_toad" -> Toad
      [] name = "add_beacon" -> Beacon
      [] name = "add_beehive" -> Beehive
      [] name = "add_lightweight_spaceship" -> LightweightSpaceship
      [] name = "add_pulsar" -> Pulsar

StampOps ==
    {"add_glider", "add_block", "add_blinker", "add_toad", "add_beacon",
     "add_beehive", "add_lightweight_spaceship", "add_pulsar"}

\* C9: add_pattern at base (bx, by) sets Alive exactly the cells
\* (bx+dx, by+dy) with bx+dx < width and by+dy < height, leaves every other
\* cell as it was, does not panic, and sets no cell in place of a clipped
\* offset (the grid keeps its rows and columns).
C9_PlacementClips ==
    op \in StampOps =>
        LET target == Translate(OffsetsOf(PatternOf(op)), args[1], args[2])
        IN  /\ out.kind # "panic"
            /\ DOMAIN grid = Rows(height)
            /\ \A y \in Rows(height) : DOMAIN grid[y] = Cols(width)
            /\ \A c \in Cells :
                   grid[c[2]][c[1]] =
                       IF c \in target THEN Alive ELSE old[c[2]][c[1]]

\* A glider stamped at (1, 0) on an all-Dead grid 2 wide and 3 high: offset
\* (0,2) lands on (1,2) and the other four are clipped at the right edge;
\* column 0, where a wrapped offset would land, stays Dead.
C9_Witness ==
    /\ op = "add_glider"
    /\ args = <<1, 0>>
    /\ width = 2 /\ height = 3
    /\ AllDead(old)
    /\ LiveSet(grid) = {<<1, 2>>}

\* ===== the seeding's claims (SpecSeed) =====

AllAlive(g) == \A c \in Cells : g[c[2]][c[1]] = Alive

\* C10: clear_grid followed by add_random_cells(p) leaves an all-Dead grid
\* when p is 0.0 and an all-Alive grid when p is 1.0, whatever the grid held
\* before.
C10_DensityExtremes ==
    op = "seed" =>
        /\ args = <<0>> => AllDead(grid)
        /\ args = <<100>> => AllAlive(grid)

\* A 2x2 grid with Alive and Dead cells, seeded with density 0.0.
C10_Witness ==
    /\ op = "seed"
    /\ args = <<0>>
    /\ width = 2 /\ height = 2
    /\ LiveSet(old) = {<<0, 0>>, <<0, 1>>, <<1, 1>>}
    /\ AllDead(grid)

\* ===== main's claims (SpecMain) =====

\* The GameOfLife value after k generations from self.
RECURSIVE Generations(_, _)
Generations(self, k) ==
    IF k = 0 THEN self ELSE Generations(next_generation(self), k - 1)

\* The GameOfLife value as main's initialize left it.
seededGame == [grid |-> seeded, width |-> width, height |-> height]

\* The last call returned Ok.
ReturnedOk(name) == op = name /\ out.kind = "Ok"

\* C11: in every iteration of the loop the statements run in the order
\* next_generation, render, present, export, stop check: after each of them
\* main is at the next one.  When an iteration has exported its frame, the
\* buffer that was rendered and presented and the frame that was appended are
\* both those of the current grid, which is the seeded grid after generation
\* completed steps, and the frame is the generation-th frame of the animation.
C11_LoopOrder ==
    /\ (op = "while" /\ out = Returned(TRUE)) => pc = "next_generation"
    /\ op = "next_generation" => pc = "render"
    /\ op = "render" => pc = "update_with_buffer"
    /\ ReturnedOk("update_with_buffer") => pc = "add_frame"
    /\ ReturnedOk("add_frame") => pc = "while"
    /\ ReturnedOk("add_frame") =>
          /\ game = Generations(seededGame, generation)
          /\ Returned(buffer) = render(game, buffer)
          /\ window = buffer
          /\ Len(frames) = generation
          /\ Returned(frames[generation].buffer) = to_gif_frame_data(game)

\* The second iteration has exported its frame, and the grid changed in both
\* of its steps.
C11_Witness ==
    /\ ReturnedOk("add_frame")
    /\ generation = 2
    /\ Generations(seededGame, 1) # seededGame
    /\ frames[1].buffer # frames[2].buffer

\* C12: main always ends.  It never computes more than MAX_FRAMES
\* generations; when the loop condition is found false (the window reports
\* closed, or Escape down, or generation has reached MAX_FRAMES) main has
\* returned Ok(()); once main has returned no statement runs any more; and in
\* every run main does return.
C12_Terminates ==
    /\ [](steps <= MAX_FRAMES /\ generation <= MAX_FRAMES)
    /\ []((op = "while" /\ out = Returned(FALSE)) =>
            (pc = "done" /\ result = Ok(<<>>)))
    /\ [][pc # "done"]_vars
    /\ <>[](pc = "done")

\* The loop ended at the ceiling, with the window open and no key down.
C12_Witness ==
    /\ op = "while"
    /\ args = <<TRUE, FALSE>>
    /\ generation = MAX_FRAMES
    /\ steps = MAX_FRAMES
    /\ Len(frames) = MAX_FRAMES
    /\ pc = "done"
    /\ result = Ok(<<>>)

\* C13: a failure of update_with_buffer or of add_frame ends main at once
\* with that error.  When update_with_buffer fails, the window keeps what it
\* showed and the generation just computed gets no frame; when add_frame
\* fails, no frame is written.  Nothing runs once main has returned: no retry,
\* no later next_generation, render or export.
C13_MidRunFailure ==
    [][ /\ pc # "done"
        /\ (op' = "update_with_buffer" /\ out'.kind = "Err") =>
              /\ pc' = "done"
              /\ result' = Err("update_with_buffer")
              /\ window' = window
              /\ frames' = frames
              /\ Len(frames') = generation' - 1
        /\ (op' = "add_frame" /\ out'.kind = "Err") =>
              /\ pc' = "done"
              /\ result' = Err("write_frame")
              /\ frames' = frames
              /\ Len(frames') = generation' - 1
      ]_vars

\* The second generation was computed and rendered, and presenting it failed.
C13_Witness ==
    /\ op = "update_with_buffer"
    /\ out = Err("update_with_buffer")
    /\ generation = 2
    /\ Len(frames) = 1
    /\ window # buffer
    /\ pc = "done"

\* The calls that acquire main's resources, and the errors they return.
StartupCalls == {"GifGenerator::new", "Window::new"}
StartupErrors ==
    {Err("File::create"), Err("Encoder::new"), Err("write_extension"),
     Err("Window::new")}

\* C14: when the output file or the window cannot be created, main returns
\* that error at once; in a run that ended so, next_generation was never
\* called (the grid is still as initialize left it), the buffer was never
\* allocated or rendered, nothing was presented and no frame was written.
C14_StartupFailure ==
    /\ (op \in StartupCalls /\ out.kind = "Err") =>
          (pc = "done" /\ result = out)
    /\ result \in StartupErrors =>
          /\ op \in StartupCalls
          /\ steps = 0
          /\ generation = 0
          /\ grid = seeded
          /\ buffer = <<>>
          /\ window = NoWindow
          /\ frames = <<>>

\* The window could not be created, after the grid was seeded with live cells
\* and the output file was created.
C14_Witness ==
    /\ op = "Window::new"
    /\ out = Err("Window::new")
    /\ pc = "done"
    /\ \E y \in Rows(height), x \in Cols(width) : seeded[y][x] = Alive

\* C20: whenever the loop condition is evaluated, generation equals the
\* number of completed next_generation calls and the number of frames
\* written.  A step either leaves generation as it is or is a
\* next_generation that adds exactly 1 to it.  Frame k of the animation
\* encodes the seeded grid after exactly k generations, k >= 1, and what the
\* window shows is the rendering of the grid after the last or the last but
\* one generation, never before the first: the seeded grid itself is neither
\* presented nor exported.
C20_GenerationCounts ==
    /\ []( /\ (pc = "while" \/ op = "while") =>
                 (generation = steps /\ generation = Len(frames))
           /\ Len(frames) <= generation
           /\ \A k \in 1 .. Len(frames) :
                 Returned(frames[k].buffer)
                     = to_gif_frame_data(Generations(seededGame, k))
           /\ window # NoWindow =>
                 \E k \in {generation - 1, generation} \ {0} :
                     Returned(window) = render(Generations(seededGame, k), window) )
    /\ [][ \/ generation' = generation
           \/ generation' = generation + 1 /\ op' = "next_generation"
               /\ steps' = steps + 1 ]_vars

\* The loop condition is about to be evaluated for the third time: two
\* generations, two frames, and the first frame is not the seeded grid.
C20_Witness ==
    /\ pc = "while"
    /\ generation = 2
    /\ steps = 2
    /\ Len(frames) = 2
    /\ Returned(frames[1].buffer) # to_gif_frame_data(seededGame)
    /\ frames[2] # frames[1]

\* ===== the views' claims (SpecView) =====

\* C15: render fills a buffer of (width*SCALE)*(height*SCALE) pixels so that
\* the pixel at py*(width*SCALE)+px has the colour of the cell
\* (px/SCALE, py/SCALE) of the grid, and only the Alive colour 0x00FFFFFF and
\* the Dead colour 0x00001122 occur in it, never 0x00000000.
C15_RenderOwnDimensions ==
    (op = "render" /\ args = <<(width * SCALE) * (height * SCALE)>>) =>
        /\ out.kind = "value"
        /\ Len(out.value) = (width * SCALE) * (height * SCALE)
        /\ \A px \in Cols(width * SCALE), py \in Rows(height * SCALE) :
              /\ out.value[py * (width * SCALE) + px + 1]
                    = get_color(game, px \div SCALE, py \div SCALE)
              /\ out.value[py * (width * SCALE) + px + 1] \in {16777215, 4386}

\* ===== initialize's claim (SpecStartup) =====

\* The ten placements the claim lists.
KnownPlacements ==
    << [pattern |-> "add_glider", x |-> 15, y |-> 15],
       [pattern |-> "add_glider", x |-> 70, y |-> 10],
       [pattern |-> "add_block", x |-> 5, y |-> 5],
       [pattern |-> "add_block", x |-> 90, y |-> 90],
       [pattern |-> "add_blinker", x |-> 25, y |-> 25],
       [pattern |-> "add_toad", x |-> 35, y |-> 35],
       [pattern |-> "add_beacon", x |-> 45, y |-> 45],
       [pattern |-> "add_beehive", x |-> 60, y |-> 60],
       [pattern |-> "add_lightweight_spaceship", x |-> 10, y |-> 50],
       [pattern |-> "add_pulsar", x |-> 50, y |-> 20] >>

\* The cells a placement stamps when nothing is clipped.
Footprint(p) == Translate(OffsetsOf(PatternOf(p.pattern)), p.x, p.y)

Min(S) == CHOOSE m \in S : \A n \in S : m <= n
Max(S) == CHOOSE m \in S : \A n \in S : n <= m

\* The positions of the bounding box of a placement.
BoundingBox(p) ==
    LET xs == {c[1] : c \in Footprint(p)}
        ys == {c[2] : c \in Footprint(p)}
    IN  (Min(xs) .. Max(xs)) \X (Min(ys) .. Max(ys))

\* C16: after initialize, whatever the random source drew, every offset cell
\* of each of the ten placements lies in the 100 x 100 grid (none is clipped)
\* and is Alive, and the bounding boxes of no two placements share a cell.
C16_PlacementsSurviveNoise ==
    op \in {"initialize", "GifGenerator::new"} =>
        /\ width = 100 /\ height = 100
        /\ \A i \in DOMAIN KnownPlacements :
              \A c \in Footprint(KnownPlacements[i]) :
                  /\ c \in Cells
                  /\ grid[c[2]][c[1]] = Alive
        /\ \A i, j \in DOMAIN KnownPlacements :
              i < j => BoundingBox(KnownPlacements[i])
                           \cap BoundingBox(KnownPlacements[j]) = {}

\* initialize has run with no draw below the probability: the live cells
\* are exactly those of the ten placements, 96 in all.
C16_Witness ==
    /\ op = "initialize"
    /\ LiveSet(grid) = UNION {Footprint(KnownPlacements[i]) : i \in DOMAIN KnownPlacements}
    /\ Cardinality(LiveSet(grid)) = 96

\* The grid has exactly height rows of exactly width cells.
WellShaped ==
    /\ DOMAIN grid = Rows(height)
    /\ \A y \in Rows(height) : DOMAIN grid[y] = Cols(width)

\* C19: get_color, render and to_gif_frame_data leave every cell and the
\* grid's width and height as they are; a step that changes a cell is a
\* seeding or a next_generation; no operation changes width or height, and
\* after every operation the grid has exactly height rows of exactly width
\* cells.
C19_OnlySeedAndStepWrite ==
    [][ /\ op' \in {"get_color", "render", "to_gif_frame_data"} =>
              (grid' = grid /\ width' = width /\ height' = height)
        /\ grid' # grid => op' \in {"initialize", "next_generation"}
        /\ width' = width
        /\ height' = height
        /\ WellShaped'
      ]_vars

\* render has returned the buffer of a grid with live and with dead cells,
\* and the grid is as it was before the call.
C19_Witness ==
    /\ op = "render"
    /\ out.kind = "value"
    /\ grid = old
    /\ WellShaped
    /\ \E y \in Rows(height), x \in Cols(width) : grid[y][x] = Alive
    /\ \E y \in Rows(height), x \in Cols(width) : grid[y][x] = Dead

\* ===== the oscillators' claim (SpecOscillator) =====

\* The live cells are those the one placement stamped.
AsStamped(pattern) ==
    LiveSet(grid) = Translate(OffsetsOf(pattern), placed[1].x, placed[1].y)

\* C17: stamped alone on the all-Dead grid with a cell of margin to each
\* edge, the Toad and the Beacon are back at their stamped cell set after
\* every second step and differ from it after the steps between; the Pulsar
\* is back at its stamped 48 cells after every third step and differs from
\* them after the steps between.
C17_OscillatorPeriods ==
    /\ \A p \in {<<"add_toad", Toad>>, <<"add_beacon", Beacon>>} :
          (Only(p[1]) /\ AwayFromEdges(p[2], placed[1].x, placed[1].y)) =>
              (AsStamped(p[2]) <=> steps % 2 = 0)
    /\ (Only("add_pulsar") /\ AwayFromEdges(Pulsar, placed[1].x, placed[1].y)) =>
          /\ AsStamped(Pulsar) <=> steps % 3 = 0
          /\ Cardinality(OffsetsOf(Pulsar)) = 48

\* The pulsar stamped at (1, 1), three steps later: the 48 cells it was
\* stamped with, after a step that changed the grid.
C17_Witness ==
    /\ Only("add_pulsar")
    /\ placed[1].x = 1 /\ placed[1].y = 1
    /\ AwayFromEdges(Pulsar, 1, 1)
    /\ steps = 3
    /\ op = "next_generation"
    /\ old # grid
    /\ Cardinality(LiveSet(grid)) = 48
    /\ AsStamped(Pulsar)

\* ===== the spaceship's claim (SpecPattern) =====

\* The positions the spaceship stamped at (x, y) arrives at lie in the grid.
ArrivesInside(x, y) ==
    Translate(OffsetsOf(LightweightSpaceship), x + 2, y) \subseteq Cells

\* C18: a Lightweight Spaceship stamped at (x, y) on the all-Dead grid, with
\* a cell of margin to each edge and the grid reaching as far as it travels,
\* is after exactly 4 steps its own 9-cell shape stamped at (x+2, y): shifted
\* by 2 along x and by 0 along y, and no other cell is Alive.
C18_SpaceshipTranslates ==
    (Only("add_lightweight_spaceship") /\ steps = 4
        /\ AwayFromEdges(LightweightSpaceship, placed[1].x, placed[1].y)
        /\ ArrivesInside(placed[1].x, placed[1].y)) =>
        /\ LiveSet(grid) =
               Translate(OffsetsOf(LightweightSpaceship), placed[1].x + 2, placed[1].y)
        /\ Cardinality(LiveSet(grid)) = 9

\* The spaceship stamped at (1, 2), four steps later: its shape at (3, 2).
C18_Witness ==
    /\ Only("add_lightweight_spaceship")
    /\ placed[1].x = 1 /\ placed[1].y = 2
    /\ AwayFromEdges(LightweightSpaceship, 1, 2)
    /\ ArrivesInside(1, 2)
    /\ steps = 4
    /\ LiveSet(grid) = {<<3, 2>>, <<6, 2>>, <<7, 3>>, <<3, 4>>, <<7, 4>>,
                        <<4, 5>>, <<5, 5>>, <<6, 5>>, <<7, 5>>}
====
